---- MODULE Spec2Model ----
(***************************************************************************)
(* A model of tinyconf (src/tinyconf.py): the TinyconfEditor session.      *)
(* Rows and columns are 0-based as in the source; a line is a sequence of  *)
(* one-character strings, the buffer a non-empty sequence of lines, and    *)
(* the stored file a sequence of characters in which "\n" separates lines. *)
(***************************************************************************)
EXTENDS Integers, Sequences, FiniteSets, TLC

VARIABLES
    buffer,         \* self.buffer: the list of lines
    cursor_y,       \* self.cursor_y
    cursor_x,       \* self.cursor_x
    scroll_offset,  \* self.scroll_offset
    filepath,       \* self.filepath is set (a file target exists)
    file,           \* the content stored at self.filepath
    status,         \* self.status
    status_timer,   \* self.status_timer
    unsaved,        \* self.unsaved (the dirty flag)
    command_mode,   \* self.command_mode
    command_input,  \* self.command_input
    pc,             \* where the session is: draw, getch, prompt, exit, done, crashed
    prompt_key,     \* the key that answered prompt_save ("" before any answer)
    io_error,       \* an OSError raised by save_file is propagating
    nkeys,          \* number of input events read so far
    status_row,     \* what draw() last wrote on the status row
    renders,        \* number of draw() calls since the last input event was read
    synced          \* the lines last loaded from or saved to the file target
                    \* (the initial empty line when nothing was loaded)

vars == <<buffer, cursor_y, cursor_x, scroll_offset, filepath, file, status,
          status_timer, unsaved, command_mode, command_input, pc, prompt_key,
          io_error, nkeys, status_row, renders, synced>>

(* ------------------------------ bounds -------------------------------- *)

\* Input events a session reads at most.
MaxKeys == 6

\* Terminal height h of getmaxyx(); the last row is the status row.
ScreenHeight == 3

\* Characters typed in Normal mode, characters typed in CommandEntry, and
\* the mouse columns tried.
InsertChars == {"a", "b"}
CmdChars == {"q", "s", "/", " "}
MouseXs == {0, 4, 5, 6, 8}

\* Contents the file target may hold when the session starts.
InitFiles == { <<>>,
               <<"a", "\n">>,
               <<"a", "b", "\n", "\n", "b">> }

(* ------------------------- program constants -------------------------- *)

\* Width of the line-number gutter, f"{line_index + 1:4} ".
GutterWidth == 5

\* status_timer value of an ephemeral message.
StatusCycles == 20

ExecHint == "EXEC MODE: type /q to quit, /s to save"
CommandHint == "COMMAND MODE: type /q to quit, /s to save"
SavedMsg == "File saved."
CanceledMsg == "Canceled."
PromptMsg == "Save before quitting? (y/N/esc)"

(* ------------------------------ helpers ------------------------------- *)

Min(a, b) == IF a < b THEN a ELSE b
Max(a, b) == IF a > b THEN a ELSE b

\* line[:n] and line[n:]
Take(line, n) == SubSeq(line, 1, n)
Drop(line, n) == SubSeq(line, n + 1, Len(line))

\* buf[y], 0-based
LineAt(buf, y) == buf[y + 1]

visible_height == ScreenHeight - 1

\* str.strip() on the characters of the model: blanks go from both ends.
RECURSIVE LStrip(_)
LStrip(s) == IF s # <<>> /\ Head(s) = " " THEN LStrip(Tail(s)) ELSE s

RECURSIVE RStrip(_)
RStrip(s) == IF s # <<>> /\ s[Len(s)] = " " THEN RStrip(Take(s, Len(s) - 1)) ELSE s

Strip(s) == RStrip(LStrip(s))

\* "\n".join(lines)
RECURSIVE Join(_)
Join(lines) ==
    IF lines = <<>> THEN <<>>
    ELSE IF Len(lines) = 1 THEN lines[1]
    ELSE lines[1] \o <<"\n">> \o Join(Tail(lines))

\* str.splitlines(): a line ends at each "\n"; text after the last "\n" is a
\* line only when it is not empty.
RECURSIVE SplitFrom(_, _)
SplitFrom(s, cur) ==
    IF s = <<>> THEN (IF cur = <<>> THEN <<>> ELSE <<cur>>)
    ELSE IF Head(s) = "\n" THEN <<cur>> \o SplitFrom(Tail(s), <<>>)
    ELSE SplitFrom(Tail(s), Append(cur, Head(s)))

Splitlines(s) == SplitFrom(s, <<>>)

\* f.read().splitlines() or [""]
Load(s) == IF Splitlines(s) = <<>> THEN << <<>> >> ELSE Splitlines(s)

(* ------------------------------ status row ---------------------------- *)

\* draw, line 89: the text of the status row, "/" + command_input in command
\* mode and the status message otherwise.
StatusLine(cmode, cinput, msg) ==
    IF cmode THEN [kind |-> "command", text |-> <<"/">> \o cinput]
    ELSE [kind |-> "message", text |-> msg]

\* A key was read and handled with no draw() call.
KeyHandled == renders' = 0 /\ UNCHANGED status_row

(* ------------------------- render-time reconcile ----------------------- *)

\* draw, line 55: the scroll offset clamped to the buffer.
ClampScroll(buf, so) == Min(so, Max(0, Len(buf) - visible_height))

\* draw, line 56: the cursor row clamped to the buffer.
DrawCursorY(buf, cy) == Max(0, Min(cy, Len(buf) - 1))

\* The follow-cursor step without its elif branch (lines 60-61).
FollowCursorUpOnly(cy, so) == IF cy < so THEN cy ELSE so

\* The follow-cursor step scrolling down one row per render.
FollowCursorOneRow(cy, so) ==
    IF cy < so THEN cy
    ELSE IF cy >= so + visible_height THEN so + 1
    ELSE so

\* draw, lines 58-61: the window follows the (clamped) cursor row.
FollowCursor(cy, so) ==
    IF cy < so THEN cy
    ELSE IF cy >= so + visible_height THEN cy - visible_height + 1
    ELSE so

\* draw, lines 55-61: the scroll offset after the render.
DrawScroll(buf, cy, so) == FollowCursor(DrawCursorY(buf, cy), ClampScroll(buf, so))

\* draw, line 82: the column re-clamped to the line of the clamped row.
DrawCursorX(buf, cy, cx) == Min(cx, Len(LineAt(buf, DrawCursorY(buf, cy))))

\* The state changes of one draw() call.
draw ==
    /\ scroll_offset' = DrawScroll(buffer, cursor_y, scroll_offset)
    /\ cursor_y' = DrawCursorY(buffer, cursor_y)
    /\ cursor_x' = DrawCursorX(buffer, cursor_y, cursor_x)

(* ---------------------------- buffer editing --------------------------- *)

\* insert, lines 97-98
InsertBuffer(buf, y, x, ch) ==
    [buf EXCEPT ![y + 1] = Take(@, x) \o <<ch>> \o Drop(@, x)]

\* backspace, lines 103-112: the buffer afterwards
BackspaceBuffer(buf, y, x) ==
    IF x > 0 THEN [buf EXCEPT ![y + 1] = Take(@, x - 1) \o Drop(@, x)]
    ELSE IF y > 0 THEN
        Take(buf, y - 1) \o <<LineAt(buf, y - 1) \o LineAt(buf, y)>> \o Drop(buf, y + 1)
    ELSE buf

\* backspace with line 109 after line 110: the column is taken from the
\* merged line.
BackspaceCursorAfterMerge(buf, y, x) ==
    IF x > 0 THEN <<y, x - 1>>
    ELSE IF y > 0 THEN <<y - 1, Len(LineAt(buf, y - 1)) + Len(LineAt(buf, y))>>
    ELSE <<y, x>>

\* backspace: the cursor <<row, column>> afterwards
BackspaceCursor(buf, y, x) ==
    IF x > 0 THEN <<y, x - 1>>
    ELSE IF y > 0 THEN <<y - 1, Len(LineAt(buf, y - 1))>>
    ELSE <<y, x>>

\* backspace without line 113: the dirty flag is left as it was.
BackspaceUnsavedKept(y, x, dirty) == dirty

\* backspace, line 113: the dirty flag afterwards
BackspaceUnsaved(y, x, dirty) == TRUE

\* newline inserting an empty line instead of line[self.cursor_x:].
NewlineBufferDropsTail(buf, y, x) ==
    Take(buf, y) \o <<Take(LineAt(buf, y), x), <<>> >> \o Drop(buf, y + 1)

\* newline, lines 116-118
NewlineBuffer(buf, y, x) ==
    Take(buf, y) \o <<Take(LineAt(buf, y), x), Drop(LineAt(buf, y), x)>> \o Drop(buf, y + 1)

\* move_cursor without the wrap branches (lines 131-133 and 137-139).
MoveTargetNoWrap(buf, y, x, key) ==
    IF key = "UP" /\ y > 0 THEN <<y - 1, x>>
    ELSE IF key = "DOWN" /\ y < Len(buf) - 1 THEN <<y + 1, x>>
    ELSE IF key = "LEFT" /\ x > 0 THEN <<y, x - 1>>
    ELSE IF key = "RIGHT" /\ x < Len(LineAt(buf, y)) THEN <<y, x + 1>>
    ELSE <<y, x>>

\* move_cursor, lines 124-140: the cursor <<row, column>> afterwards
MoveTarget(buf, y, x, key) ==
    IF key = "UP" /\ y > 0 THEN <<y - 1, x>>
    ELSE IF key = "DOWN" /\ y < Len(buf) - 1 THEN <<y + 1, x>>
    ELSE IF key = "LEFT" THEN
        (IF x > 0 THEN <<y, x - 1>>
         ELSE IF y > 0 THEN <<y - 1, Len(LineAt(buf, y - 1))>>
         ELSE <<y, x>>)
    ELSE IF key = "RIGHT" THEN
        (IF x < Len(LineAt(buf, y)) THEN <<y, x + 1>>
         ELSE IF y < Len(buf) - 1 THEN <<y + 1, 0>>
         ELSE <<y, x>>)
    ELSE <<y, x>>

\* move_cursor without its last line (line 140).
MoveCursorNoClamp(buf, y, x, key) == MoveTarget(buf, y, x, key)

MoveCursor(buf, y, x, key) ==
    LET t == MoveTarget(buf, y, x, key)
    IN  <<t[1], Min(t[2], Len(LineAt(buf, t[1])))>>

\* The click mapping with the gutter taken one column too narrow.
MouseCursorNarrowGutter(buf, y, x, so, my, mx) ==
    IF my < ScreenHeight - 1 /\ 0 <= so + my /\ so + my < Len(buf)
    THEN <<so + my, Max(0, Min(mx - (GutterWidth - 1), Len(LineAt(buf, so + my))))>>
    ELSE <<y, x>>

\* main, lines 211-216: the cursor <<row, column>> after a click at (my, mx)
MouseCursor(buf, y, x, so, my, mx) ==
    IF my < ScreenHeight - 1 /\ 0 <= so + my /\ so + my < Len(buf)
    THEN <<so + my, Max(0, Min(mx - GutterWidth, Len(LineAt(buf, so + my))))>>
    ELSE <<y, x>>

(* ------------------------------- storage ------------------------------ *)

\* save_file without line 146: the text is written, the dirty flag stays.
save_file_keeps_dirty ==
    IF filepath
    THEN /\ file' = Join(buffer)
         /\ status' = SavedMsg
         /\ status_timer' = StatusCycles
         /\ synced' = buffer
         /\ UNCHANGED unsaved
    ELSE UNCHANGED <<file, unsaved, status, status_timer, synced>>

\* save_file, lines 143-148, when open() and write() succeed.
save_file ==
    IF filepath
    THEN /\ file' = Join(buffer)
         /\ unsaved' = FALSE
         /\ status' = SavedMsg
         /\ status_timer' = StatusCycles
         /\ synced' = buffer
    ELSE UNCHANGED <<file, unsaved, status, status_timer, synced>>

\* save_file when open() or the write raises OSError: with open() failing the
\* file is as it was, with the write failing it holds a proper prefix of the
\* text. Lines 146-148 are not reached and nothing catches the exception, so
\* it leaves main() and ends the session.
save_file_raises ==
    /\ filepath
    /\ \/ file' = file
       \/ \E n \in 0..(Len(Join(buffer)) - 1) : file' = Take(Join(buffer), n)
    /\ io_error' = TRUE
    /\ pc' = "crashed"
    /\ UNCHANGED <<buffer, cursor_y, cursor_x, scroll_offset, filepath, status,
                   status_timer, unsaved, command_mode, command_input, prompt_key,
                   synced>>

(* -------------------------------- session ------------------------------ *)

\* __init__, lines 13-28
Init ==
    /\ filepath \in BOOLEAN
    /\ file \in (IF filepath THEN InitFiles ELSE {<<>>})
    /\ buffer = (IF filepath THEN Load(file) ELSE << <<>> >>)
    /\ cursor_y = 0
    /\ cursor_x = 0
    /\ scroll_offset = 0
    /\ status = ExecHint
    /\ status_timer = 0
    /\ unsaved = FALSE
    /\ command_mode = FALSE
    /\ command_input = <<>>
    /\ pc = "draw"
    /\ prompt_key = ""
    /\ io_error = FALSE
    /\ nkeys = 0
    /\ status_row = [kind |-> "blank", text |-> ""]
    /\ renders = 0
    /\ synced = buffer

\* getch() returns one more input event.
ReadKey(at) ==
    /\ pc = at
    /\ nkeys < MaxKeys
    /\ nkeys' = nkeys + 1

\* main, lines 182-187: render, advance the status countdown, wait for a key.
Draw ==
    /\ pc = "draw"
    /\ draw
    /\ IF status_timer > 0
       THEN /\ status_timer' = status_timer - 1
            /\ status' = (IF status_timer - 1 = 0 THEN CommandHint ELSE status)
       ELSE UNCHANGED <<status, status_timer>>
    /\ pc' = "getch"
    /\ UNCHANGED <<buffer, filepath, file, unsaved, command_mode, command_input,
                   prompt_key, io_error, nkeys>>
    /\ status_row' = StatusLine(command_mode, command_input, status)
    /\ renders' = renders + 1
    /\ UNCHANGED synced

(* Normal mode, lines 201-218 *)

NormalSlash ==
    /\ ReadKey("getch") /\ ~command_mode
    /\ command_mode' = TRUE
    /\ command_input' = <<>>
    /\ pc' = "draw"
    /\ UNCHANGED <<buffer, cursor_y, cursor_x, scroll_offset, filepath, file, status,
                   status_timer, unsaved, prompt_key, io_error>>
    /\ KeyHandled
    /\ UNCHANGED synced

NormalBackspace ==
    /\ ReadKey("getch") /\ ~command_mode
    /\ buffer' = BackspaceBuffer(buffer, cursor_y, cursor_x)
    /\ cursor_y' = BackspaceCursor(buffer, cursor_y, cursor_x)[1]
    /\ cursor_x' = BackspaceCursor(buffer, cursor_y, cursor_x)[2]
    /\ unsaved' = BackspaceUnsaved(cursor_y, cursor_x, unsaved)
    /\ pc' = "draw"
    /\ UNCHANGED <<scroll_offset, filepath, file, status, status_timer, command_mode,
                   command_input, prompt_key, io_error>>
    /\ KeyHandled
    /\ UNCHANGED synced

NormalEnter ==
    /\ ReadKey("getch") /\ ~command_mode
    /\ buffer' = NewlineBuffer(buffer, cursor_y, cursor_x)
    /\ cursor_y' = cursor_y + 1
    /\ cursor_x' = 0
    /\ unsaved' = TRUE
    /\ pc' = "draw"
    /\ UNCHANGED <<scroll_offset, filepath, file, status, status_timer, command_mode,
                   command_input, prompt_key, io_error>>
    /\ KeyHandled
    /\ UNCHANGED synced

NormalArrow ==
    /\ ReadKey("getch") /\ ~command_mode
    /\ \E key \in {"UP", "DOWN", "LEFT", "RIGHT"} :
          /\ cursor_y' = MoveCursor(buffer, cursor_y, cursor_x, key)[1]
          /\ cursor_x' = MoveCursor(buffer, cursor_y, cursor_x, key)[2]
    /\ pc' = "draw"
    /\ UNCHANGED <<buffer, scroll_offset, filepath, file, status, status_timer, unsaved,
                   command_mode, command_input, prompt_key, io_error>>
    /\ KeyHandled
    /\ UNCHANGED synced

NormalMouse ==
    /\ ReadKey("getch") /\ ~command_mode
    /\ \E my \in 0..(ScreenHeight - 1), mx \in MouseXs :
          /\ cursor_y' = MouseCursor(buffer, cursor_y, cursor_x, scroll_offset, my, mx)[1]
          /\ cursor_x' = MouseCursor(buffer, cursor_y, cursor_x, scroll_offset, my, mx)[2]
    /\ pc' = "draw"
    /\ UNCHANGED <<buffer, scroll_offset, filepath, file, status, status_timer, unsaved,
                   command_mode, command_input, prompt_key, io_error>>
    /\ KeyHandled
    /\ UNCHANGED synced

NormalInsert ==
    /\ ReadKey("getch") /\ ~command_mode
    /\ \E ch \in InsertChars : buffer' = InsertBuffer(buffer, cursor_y, cursor_x, ch)
    /\ cursor_x' = cursor_x + 1
    /\ unsaved' = TRUE
    /\ pc' = "draw"
    /\ UNCHANGED <<cursor_y, scroll_offset, filepath, file, status, status_timer,
                   command_mode, command_input, prompt_key, io_error>>
    /\ KeyHandled
    /\ UNCHANGED synced

\* A key code of 256 or more that no branch handles.
NormalOther ==
    /\ ReadKey("getch") /\ ~command_mode
    /\ pc' = "draw"
    /\ UNCHANGED <<buffer, cursor_y, cursor_x, scroll_offset, filepath, file, status,
                   status_timer, unsaved, command_mode, command_input, prompt_key,
                   io_error>>
    /\ KeyHandled
    /\ UNCHANGED synced

(* CommandEntry, lines 188-199, and handle_command, lines 165-176 *)

\* handle_command, lines 174-176: the command is consumed, the loop goes on.
CommandConsumed ==
    /\ command_input' = <<>>
    /\ command_mode' = FALSE
    /\ pc' = "draw"

\* cmd == "/": the prefix character is inserted as text.
CmdEnterSlash ==
    /\ ReadKey("getch") /\ command_mode
    /\ Strip(command_input) = <<"/">>
    /\ buffer' = InsertBuffer(buffer, cursor_y, cursor_x, "/")
    /\ cursor_x' = cursor_x + 1
    /\ unsaved' = TRUE
    /\ CommandConsumed
    /\ UNCHANGED <<cursor_y, scroll_offset, filepath, file, status, status_timer,
                   prompt_key, io_error>>
    /\ KeyHandled
    /\ UNCHANGED synced

\* cmd == "q" with nothing unsaved: handle_command returns False, main breaks.
CmdEnterQuitClean ==
    /\ ReadKey("getch") /\ command_mode
    /\ Strip(command_input) = <<"q">>
    /\ ~unsaved
    /\ pc' = "exit"
    /\ UNCHANGED <<buffer, cursor_y, cursor_x, scroll_offset, filepath, file, status,
                   status_timer, unsaved, command_mode, command_input, prompt_key,
                   io_error>>
    /\ KeyHandled
    /\ UNCHANGED synced

\* prompt_save without its draw() call (line 152).
CmdEnterQuitDirtyNoDraw ==
    /\ pc = "getch" /\ command_mode
    /\ nkeys < MaxKeys
    /\ nkeys' = nkeys + 1
    /\ Strip(command_input) = <<"q">>
    /\ unsaved
    /\ status' = PromptMsg
    /\ prompt_key' = ""
    /\ pc' = "prompt"
    /\ renders' = 0
    /\ UNCHANGED <<buffer, cursor_y, cursor_x, scroll_offset, filepath, file,
                   status_timer, unsaved, command_mode, command_input, io_error,
                   status_row>>
    /\ UNCHANGED synced

\* cmd == "q" with unsaved changes: prompt_save sets the status, draws and
\* waits for the answer (lines 151-154).
CmdEnterQuitDirty ==
    /\ ReadKey("getch") /\ command_mode
    /\ Strip(command_input) = <<"q">>
    /\ unsaved
    /\ status' = PromptMsg
    /\ draw
    /\ prompt_key' = ""
    /\ pc' = "prompt"
    /\ UNCHANGED <<buffer, filepath, file, status_timer, unsaved, command_mode,
                   command_input, io_error>>
    /\ status_row' = StatusLine(command_mode, command_input, PromptMsg)
    /\ renders' = 1
    /\ UNCHANGED synced

\* cmd == "s"
CmdEnterSave ==
    /\ ReadKey("getch") /\ command_mode
    /\ Strip(command_input) = <<"s">>
    /\ save_file
    /\ CommandConsumed
    /\ UNCHANGED <<buffer, cursor_y, cursor_x, scroll_offset, filepath, prompt_key,
                   io_error>>
    /\ KeyHandled

\* An unknown command answered by a return before lines 174-175: the session
\* stays in command mode.
CmdEnterOtherStays ==
    /\ pc = "getch" /\ command_mode
    /\ nkeys < MaxKeys
    /\ nkeys' = nkeys + 1
    /\ Strip(command_input) \notin {<<"/">>, <<"q">>, <<"s">>}
    /\ pc' = "draw"
    /\ renders' = 0
    /\ UNCHANGED <<buffer, cursor_y, cursor_x, scroll_offset, filepath, file, status,
                   status_timer, unsaved, command_mode, command_input, prompt_key,
                   io_error, status_row>>
    /\ UNCHANGED synced

\* any other command string
CmdEnterOther ==
    /\ ReadKey("getch") /\ command_mode
    /\ Strip(command_input) \notin {<<"/">>, <<"q">>, <<"s">>}
    /\ CommandConsumed
    /\ UNCHANGED <<buffer, cursor_y, cursor_x, scroll_offset, filepath, file, status,
                   status_timer, unsaved, prompt_key, io_error>>
    /\ KeyHandled
    /\ UNCHANGED synced

CmdEscape ==
    /\ ReadKey("getch") /\ command_mode
    /\ CommandConsumed
    /\ UNCHANGED <<buffer, cursor_y, cursor_x, scroll_offset, filepath, file, status,
                   status_timer, unsaved, prompt_key, io_error>>
    /\ KeyHandled
    /\ UNCHANGED synced

CmdBackspace ==
    /\ ReadKey("getch") /\ command_mode
    /\ command_input' = Take(command_input, Len(command_input) - 1)
    /\ pc' = "draw"
    /\ UNCHANGED <<buffer, cursor_y, cursor_x, scroll_offset, filepath, file, status,
                   status_timer, unsaved, command_mode, prompt_key, io_error>>
    /\ KeyHandled
    /\ UNCHANGED synced

CmdChar ==
    /\ ReadKey("getch") /\ command_mode
    /\ \E ch \in CmdChars : command_input' = Append(command_input, ch)
    /\ pc' = "draw"
    /\ UNCHANGED <<buffer, cursor_y, cursor_x, scroll_offset, filepath, file, status,
                   status_timer, unsaved, command_mode, prompt_key, io_error>>
    /\ KeyHandled
    /\ UNCHANGED synced

\* A key code of 256 or more: ignored in CommandEntry.
CmdOther ==
    /\ ReadKey("getch") /\ command_mode
    /\ pc' = "draw"
    /\ UNCHANGED <<buffer, cursor_y, cursor_x, scroll_offset, filepath, file, status,
                   status_timer, unsaved, command_mode, command_input, prompt_key,
                   io_error>>
    /\ KeyHandled
    /\ UNCHANGED synced

(* ConfirmSave: the loop of prompt_save, lines 153-163 *)

\* Escape answered like 'n': prompt_save returns True.
PromptEscQuits ==
    /\ pc = "prompt"
    /\ nkeys < MaxKeys
    /\ nkeys' = nkeys + 1
    /\ prompt_key' = "esc"
    /\ status' = CanceledMsg
    /\ status_timer' = StatusCycles
    /\ pc' = "exit"
    /\ UNCHANGED <<buffer, cursor_y, cursor_x, scroll_offset, filepath, file, unsaved,
                   command_mode, command_input, io_error>>
    /\ KeyHandled
    /\ UNCHANGED synced

\* key 27: prompt_save returns False, handle_command consumes the command.
PromptEsc ==
    /\ ReadKey("prompt")
    /\ prompt_key' = "esc"
    /\ status' = CanceledMsg
    /\ status_timer' = StatusCycles
    /\ CommandConsumed
    /\ UNCHANGED <<buffer, cursor_y, cursor_x, scroll_offset, filepath, file, unsaved,
                   io_error>>
    /\ KeyHandled
    /\ UNCHANGED synced

\* 'y' without line 160: prompt_save returns True, nothing is saved.
PromptYesNoSave ==
    /\ pc = "prompt"
    /\ nkeys < MaxKeys
    /\ nkeys' = nkeys + 1
    /\ prompt_key' = "y"
    /\ pc' = "exit"
    /\ UNCHANGED <<buffer, cursor_y, cursor_x, scroll_offset, filepath, file, status,
                   status_timer, unsaved, command_mode, command_input, io_error>>
    /\ KeyHandled
    /\ UNCHANGED synced

\* 'y' or 'Y': save_file, then prompt_save returns True and main breaks.
PromptYes ==
    /\ ReadKey("prompt")
    /\ prompt_key' = "y"
    /\ save_file
    /\ pc' = "exit"
    /\ UNCHANGED <<buffer, cursor_y, cursor_x, scroll_offset, filepath, command_mode,
                   command_input, io_error>>
    /\ KeyHandled

\* 'n' or 'N': prompt_save returns True and main breaks.
PromptNo ==
    /\ ReadKey("prompt")
    /\ prompt_key' = "n"
    /\ pc' = "exit"
    /\ UNCHANGED <<buffer, cursor_y, cursor_x, scroll_offset, filepath, file, status,
                   status_timer, unsaved, command_mode, command_input, io_error>>
    /\ KeyHandled
    /\ UNCHANGED synced

\* any other key: the while loop reads the next key.
PromptIgnored ==
    /\ ReadKey("prompt")
    /\ prompt_key' = "other"
    /\ UNCHANGED <<buffer, cursor_y, cursor_x, scroll_offset, filepath, file, status,
                   status_timer, unsaved, command_mode, command_input, pc, io_error>>
    /\ KeyHandled
    /\ UNCHANGED synced

\* main without lines 219-220.
FinalSaveSkipped ==
    /\ pc = "exit"
    /\ pc' = "done"
    /\ UNCHANGED <<buffer, cursor_y, cursor_x, scroll_offset, filepath, file, status,
                   status_timer, unsaved, command_mode, command_input, prompt_key,
                   io_error, nkeys>>
    /\ UNCHANGED <<status_row, renders>>
    /\ UNCHANGED synced

\* main, lines 219-220: after the loop.
FinalSave ==
    /\ pc = "exit"
    /\ IF filepath /\ unsaved
       THEN save_file
       ELSE UNCHANGED <<file, unsaved, status, status_timer, synced>>
    /\ pc' = "done"
    /\ UNCHANGED <<buffer, cursor_y, cursor_x, scroll_offset, filepath, command_mode,
                   command_input, prompt_key, io_error, nkeys>>
    /\ UNCHANGED <<status_row, renders>>

(* The same three saves when the storage fails. *)

CmdEnterSaveRaises ==
    /\ ReadKey("getch") /\ command_mode
    /\ Strip(command_input) = <<"s">>
    /\ save_file_raises
    /\ KeyHandled

PromptYesRaises ==
    /\ ReadKey("prompt")
    /\ save_file_raises
    /\ KeyHandled

FinalSaveRaises ==
    /\ pc = "exit"
    /\ unsaved
    /\ save_file_raises
    /\ UNCHANGED nkeys
    /\ UNCHANGED <<status_row, renders>>

Next ==
    \/ Draw
    \/ NormalSlash \/ NormalBackspace \/ NormalEnter \/ NormalArrow
    \/ NormalMouse \/ NormalInsert \/ NormalOther
    \/ CmdEnterSlash \/ CmdEnterQuitClean \/ CmdEnterQuitDirty \/ CmdEnterSave
    \/ CmdEnterOther \/ CmdEscape \/ CmdBackspace \/ CmdChar \/ CmdOther
    \/ PromptEsc \/ PromptYes \/ PromptNo \/ PromptIgnored
    \/ FinalSave

\* The session over a storage whose writes succeed.
Spec == Init /\ [][Next]_vars

NextIO == Next \/ CmdEnterSaveRaises \/ PromptYesRaises \/ FinalSaveRaises

\* The session over a storage whose writes may fail.
SpecIO == Init /\ [][NextIO]_vars

(* The session when keys that no branch handles keep arriving while an      *)
(* ephemeral status message counts down; they are not counted in nkeys, the *)
(* countdown itself bounds them.                                            *)

IdleKey ==
    /\ pc = "getch" /\ ~command_mode
    /\ status_timer > 0
    /\ pc' = "draw"
    /\ renders' = 0
    /\ UNCHANGED <<buffer, cursor_y, cursor_x, scroll_offset, filepath, file, status,
                   status_timer, unsaved, command_mode, command_input, prompt_key,
                   io_error, nkeys, status_row>>
    /\ UNCHANGED synced

NextStatus == Next \/ IdleKey

SpecStatus == Init /\ [][NextStatus]_vars

(* The reconcile step of draw() on its own, from any buffer, cursor and     *)
(* scroll offset, also ones outside the buffer.                             *)

\* Rows of the buffers tried, and the lines they are made of.
MaxReconcileRows == 3
ReconcileLines == { <<>>, <<"a">>, <<"a", "b">> }

ReconcileBuffers ==
    UNION { [1..n -> ReconcileLines] : n \in 1..MaxReconcileRows }

InitReconcile ==
    /\ buffer \in ReconcileBuffers
    /\ cursor_y \in -1..(MaxReconcileRows + 1)
    /\ cursor_x \in -1..3
    /\ scroll_offset \in -1..(MaxReconcileRows + 1)
    /\ filepath = FALSE
    /\ file = <<>>
    /\ status = ExecHint
    /\ status_timer = 0
    /\ unsaved = FALSE
    /\ command_mode = FALSE
    /\ command_input = <<>>
    /\ pc = "draw"
    /\ prompt_key = ""
    /\ io_error = FALSE
    /\ nkeys = 0
    /\ status_row = [kind |-> "blank", text |-> ""]
    /\ renders = 0
    /\ synced = buffer

\* draw() called again with no input in between (at most twice).
Reconcile ==
    /\ pc = "draw"
    /\ renders < 2
    /\ draw
    /\ status_row' = StatusLine(command_mode, command_input, status)
    /\ renders' = renders + 1
    /\ UNCHANGED <<buffer, filepath, file, status, status_timer, unsaved, command_mode,
                   command_input, pc, prompt_key, io_error, nkeys>>
    /\ UNCHANGED synced

SpecReconcile == InitReconcile /\ [][Reconcile]_vars

(* =============================== claims =============================== *)

CursorValid ==
    /\ 0 <= cursor_y /\ cursor_y < Len(buffer)
    /\ 0 <= cursor_x /\ cursor_x <= Len(LineAt(buffer, cursor_y))

\* C1: in every reachable state the cursor is valid: 0 <= cursor_y < number
\* of buffer lines and 0 <= cursor_x <= length of the line at cursor_y.
C1_CursorValid == CursorValid

\* An edited buffer of several lines with the cursor at its very end, before
\* the next render.
C1_Witness ==
    /\ pc = "draw" /\ unsaved
    /\ Len(buffer) >= 2
    /\ cursor_y = Len(buffer) - 1
    /\ cursor_x = Len(LineAt(buffer, cursor_y)) /\ cursor_x > 0

ScrollValid ==
    /\ 0 <= scroll_offset
    /\ scroll_offset <= Max(0, Len(buffer) - visible_height)
    /\ scroll_offset <= cursor_y
    /\ cursor_y < scroll_offset + visible_height

\* C2 as stated: in every reachable state the scroll offset is within
\* [0, max(0, lineCount - visibleHeight)] and the cursor row is in the window.
C2_ScrollAlways == ScrollValid

\* C2 as amended: the same holds in every state in which the session waits
\* for an input event, that is after each render.
C2_ScrollWhenWaiting == pc \in {"getch", "prompt"} => ScrollValid

\* The window scrolled down to follow the cursor of an edited buffer.
C2_Witness ==
    /\ pc = "getch" /\ unsaved
    /\ scroll_offset > 0
    /\ cursor_y = scroll_offset + visible_height - 1

\* C3: in ConfirmSave, 'n' ends the session without saving: from that key
\* press to the end of the session no step changes the stored file.
C3_NoSaveAfterNo ==
    [][ (PromptNo \/ (pc = "exit" /\ prompt_key = "n")) => file' = file ]_vars

\* C4: delete-backward at row 0, column 0 changes nothing: buffer, cursor
\* and dirty flag are as before the call.
C4_BackspaceAtOriginNoOp ==
    [][ (NormalBackspace /\ cursor_y = 0 /\ cursor_x = 0)
        => /\ buffer' = buffer
           /\ cursor_y' = cursor_y /\ cursor_x' = cursor_x
           /\ unsaved' = unsaved ]_vars

\* C5: save then load reproduces the buffer: whenever the file target holds
\* the buffer as last saved (or loaded) and nothing was edited since, loading
\* it gives exactly the buffer's lines.
C5_RoundTrip == (filepath /\ ~unsaved) => Load(file) = buffer

\* C6: a failing save does not end the session: the session goes on to the
\* next render, the dirty flag stays true, buffer and cursor are unchanged
\* and the status message reports the failure.
C6_SaveFailureSurvived ==
    [][ (io_error' /\ ~io_error)
        => /\ pc' = "draw"
           /\ unsaved' = unsaved
           /\ buffer' = buffer /\ cursor_y' = cursor_y /\ cursor_x' = cursor_x
           /\ status' \notin {ExecHint, CommandHint, SavedMsg, CanceledMsg, PromptMsg}
      ]_vars

\* C7: ConfirmSave is entered only with a dirty buffer and a quit command,
\* and once 'y' was pressed there with a file target the session ends with
\* the stored file equal to the joined buffer and the dirty flag false.
C7_YesSavesThenTerminates ==
    /\ pc = "prompt" => (unsaved /\ Strip(command_input) = <<"q">>)
    /\ (prompt_key = "y" /\ filepath)
          => /\ pc \in {"exit", "done"}
             /\ file = Join(buffer)
             /\ ~unsaved

\* A session with a file target and an edited buffer ended by 'y'.
C7_Witness ==
    /\ pc = "done" /\ prompt_key = "y" /\ filepath
    /\ file = Join(buffer) /\ file \notin InitFiles

\* C8: escape in ConfirmSave cancels the quit: the session goes on in Normal
\* mode with an empty command string; buffer, cursor, dirty flag (true) and
\* stored file are unchanged.
C8_EscapeCancelsQuit ==
    [][ PromptEsc
        => /\ pc' = "draw"
           /\ ~command_mode' /\ command_input' = <<>>
           /\ buffer' = buffer /\ cursor_y' = cursor_y /\ cursor_x' = cursor_x
           /\ unsaved /\ unsaved'
           /\ file' = file ]_vars

\* The quit of a dirty buffer with a file target was just canceled.
C8_Witness ==
    /\ pc = "draw" /\ prompt_key = "esc"
    /\ status = CanceledMsg /\ status_timer = StatusCycles
    /\ filepath /\ unsaved /\ ~command_mode

\* The stored text is the buffer: it is what save_file writes for the buffer,
\* or the buffer is what loading it gives.
Stores(text, buf) == text = Join(buf) \/ Load(text) = buf

C10_SaveCommand ==
    [][ (CmdEnterSave /\ filepath)
        => /\ file' = Join(buffer)
           /\ ~unsaved'
           /\ ~command_mode' /\ command_input' = <<>>
           /\ pc' = "draw"
           /\ buffer' = buffer /\ cursor_y' = cursor_y /\ cursor_x' = cursor_x ]_vars

\* The save command was just evaluated on an edited buffer.
C10_Witness ==
    /\ pc = "draw" /\ status = SavedMsg /\ status_timer = StatusCycles
    /\ prompt_key = "" /\ filepath /\ ~command_mode
    /\ file = Join(buffer) /\ file \notin InitFiles

\* C11: while the session waits in ConfirmSave the status row on screen is
\* the confirmation prompt, not the command string or an earlier message.
C11_PromptShown ==
    pc = "prompt" => (status_row.kind = "message" /\ status_row.text = PromptMsg)

\* C12: the countdown of an ephemeral message changes only by being set to
\* its N or by one step down on a render of the main loop, never below zero;
\* while it runs, a Normal-mode render shows the message; and when it reaches
\* zero the message becomes the default hint the session showed at start.
C12_StatusCountdown ==
    [][ /\ status_timer' >= 0
        /\ status_timer' # status_timer
              => \/ status_timer' = StatusCycles
                 \/ (Draw /\ status_timer' = status_timer - 1)
        /\ (Draw /\ status_timer > 0 /\ ~command_mode)
              => (status_row'.kind = "message" /\ status_row'.text = status)
        /\ (status_timer = 1 /\ status_timer' = 0) => status' = ExecHint ]_vars

\* C13: delete-backward at column 0 of a row r > 0 merges line r onto the
\* end of line r-1: one line fewer, the new line r-1 is old r-1 followed by
\* old r, the other lines keep text and order, the cursor is
\* (r-1, length of old line r-1) and the dirty flag is true.
C13_BackspaceMerges ==
    [][ (NormalBackspace /\ cursor_x = 0 /\ cursor_y > 0)
        => /\ Len(buffer') = Len(buffer) - 1
           /\ buffer'[cursor_y] = buffer[cursor_y] \o buffer[cursor_y + 1]
           /\ \A i \in 1..(cursor_y - 1) : buffer'[i] = buffer[i]
           /\ \A i \in (cursor_y + 1)..Len(buffer') : buffer'[i] = buffer[i + 1]
           /\ cursor_y' = cursor_y - 1
           /\ cursor_x' = Len(buffer[cursor_y])
           /\ unsaved' ]_vars

\* Two keys after loading the lines "ab", "", "b": Down, then delete-backward
\* merged the empty line into "ab".
C13_Witness ==
    /\ pc = "draw" /\ nkeys = 2
    /\ file = <<"a", "b", "\n", "\n", "b">>
    /\ buffer = << <<"a", "b">>, <<"b">> >>
    /\ cursor_y = 0 /\ cursor_x = 2 /\ unsaved

\* All characters of the buffer, line after line.
RECURSIVE Flatten(_)
Flatten(lines) == IF lines = <<>> THEN <<>> ELSE Head(lines) \o Flatten(Tail(lines))

\* C14: enter in Normal mode at (r, c) splits line r: line r keeps its first
\* c characters, the rest is a new line at r+1, the other lines keep text and
\* order, one line more, cursor (r+1, 0), dirty flag true, and the characters
\* of the buffer in order are unchanged.
C14_EnterSplits ==
    [][ NormalEnter
        => /\ Len(buffer') = Len(buffer) + 1
           /\ buffer'[cursor_y + 1] = Take(buffer[cursor_y + 1], cursor_x)
           /\ buffer'[cursor_y + 2] = Drop(buffer[cursor_y + 1], cursor_x)
           /\ \A i \in 1..cursor_y : buffer'[i] = buffer[i]
           /\ \A i \in (cursor_y + 3)..Len(buffer') : buffer'[i] = buffer[i - 1]
           /\ cursor_y' = cursor_y + 1
           /\ cursor_x' = 0
           /\ unsaved'
           /\ Flatten(buffer') = Flatten(buffer) ]_vars

\* "ab" typed into an empty buffer and split at column 1.
C14_Witness ==
    /\ pc = "draw" /\ nkeys = 4 /\ ~filepath
    /\ buffer = << <<"a">>, <<"b">> >>
    /\ cursor_y = 1 /\ cursor_x = 0 /\ unsaved

\* C15: Enter on a command that is none of "/", "q", "s" after trimming is
\* discarded: buffer, cursor, dirty flag, status message and stored file are
\* unchanged, the session goes on in Normal mode with an empty command string.
C15_UnknownCommandDiscarded ==
    [][ CmdEnterOther
        => /\ buffer' = buffer /\ cursor_y' = cursor_y /\ cursor_x' = cursor_x
           /\ unsaved' = unsaved
           /\ status' = status /\ status_timer' = status_timer
           /\ file' = file
           /\ pc' = "draw"
           /\ ~command_mode' /\ command_input' = <<>> ]_vars

\* The command "sq" was on the status row of a dirty session with a file
\* target, and the session is back in Normal mode before the next render.
C15_Witness ==
    /\ pc = "draw" /\ renders = 0 /\ ~command_mode /\ command_input = <<>>
    /\ status_row.kind = "command" /\ status_row.text = <<"/", "s", "q">>
    /\ filepath /\ unsaved /\ status = ExecHint

\* C16: reconcile is idempotent: whatever the buffer, cursor and scroll
\* offset were, a second reconcile with no input in between changes none of
\* scroll_offset, cursor_y, cursor_x.
C16_ReconcileIdempotent ==
    [][ (Reconcile /\ renders >= 1)
        => /\ scroll_offset' = scroll_offset
           /\ cursor_y' = cursor_y
           /\ cursor_x' = cursor_x ]_vars

\* Reconciled twice, with the window scrolled down to the cursor on the last
\* row.
C16_Witness ==
    /\ renders = 2
    /\ scroll_offset > 0
    /\ cursor_y = Len(buffer) - 1
    /\ cursor_x = Len(LineAt(buffer, cursor_y)) /\ cursor_x > 0

\* C17 as stated: in every mode, ConfirmSave included, exactly one render
\* lies between an input event and the next one read.
C17_OneRenderPerKey ==
    [][ nkeys' = nkeys + 1 => renders = 1 ]_vars

\* C17 as amended: exactly one render precedes every input event read, except
\* that in ConfirmSave the key after an ignored key (neither y, n nor escape)
\* is read with no render in between.
C17_OneRenderPerHandledKey ==
    [][ nkeys' = nkeys + 1
        => \/ renders = 1
           \/ (pc = "prompt" /\ prompt_key = "other" /\ renders = 0) ]_vars

\* ConfirmSave was entered: Enter was read, prompt_save rendered once, and the
\* session waits for the answer.
C17_Witness ==
    /\ pc = "prompt" /\ prompt_key = "" /\ renders = 1 /\ nkeys >= 4

\* C18: whenever the buffer differs from the lines last loaded or saved (the
\* initial empty line when nothing was loaded) the dirty flag is true, and the
\* dirty flag goes from true to false only in a step that wrote the current
\* buffer to the file target.
C18_DirtyTracksChanges ==
    [][ /\ buffer' # synced' => unsaved'
        /\ (unsaved /\ ~unsaved')
              => /\ filepath
                 /\ buffer' = buffer
                 /\ file' = Join(buffer)
                 /\ synced' = buffer ]_vars

\* Saved once, then edited again: the buffer differs from what was saved.
C18_Witness ==
    /\ filepath /\ file \notin InitFiles /\ file = Join(synced)
    /\ buffer # synced /\ unsaved

\* A Normal-mode step that is the arrow key `key`.
ArrowStep(key) ==
    /\ NormalArrow
    /\ <<cursor_y', cursor_x'>> = MoveCursor(buffer, cursor_y, cursor_x, key)

\* C19: Left and Right wrap across lines and change neither the buffer nor
\* the dirty flag: Left at column 0 of row r > 0 goes to the end of line r-1,
\* Right at the end of a line that is not the last goes to (r+1, 0), Left at
\* (0, 0) and Right at the end of the last line do nothing, otherwise the
\* column moves by one in the same row.
C19_HorizontalWrap ==
    [][ /\ NormalArrow => (buffer' = buffer /\ unsaved' = unsaved)
        /\ ArrowStep("LEFT")
              => <<cursor_y', cursor_x'>> =
                    IF cursor_x > 0 THEN <<cursor_y, cursor_x - 1>>
                    ELSE IF cursor_y > 0
                         THEN <<cursor_y - 1, Len(buffer[cursor_y])>>
                         ELSE <<0, 0>>
        /\ ArrowStep("RIGHT")
              => <<cursor_y', cursor_x'>> =
                    IF cursor_x < Len(buffer[cursor_y + 1])
                    THEN <<cursor_y, cursor_x + 1>>
                    ELSE IF cursor_y + 1 < Len(buffer)
                         THEN <<cursor_y + 1, 0>>
                         ELSE <<cursor_y, cursor_x>> ]_vars

\* Three keys into an empty buffer with no file target, 'a', Enter, then the
\* cursor back at the end of the first line.
C19_Witness ==
    /\ pc = "draw" /\ nkeys = 3 /\ ~filepath
    /\ buffer = << <<"a">>, <<>> >>
    /\ cursor_y = 0 /\ cursor_x = 1

\* A Normal-mode step that is a click at screen row my, column mx.
ClickStep(my, mx) ==
    /\ pc = "getch" /\ ~command_mode
    /\ <<cursor_y', cursor_x'>> =
          MouseCursor(buffer, cursor_y, cursor_x, scroll_offset, my, mx)
    /\ NormalMouse

\* C20: a click at screen (my, mx) puts the cursor on buffer row
\* scroll_offset + my at column mx minus the gutter width, clamped into
\* [0, length of that line]; a click on the status row or below the last
\* buffer line leaves the cursor; buffer, scroll offset and dirty flag are
\* unchanged in all cases.
C20_MouseClick ==
    [][ /\ NormalMouse
              => (buffer' = buffer /\ scroll_offset' = scroll_offset /\ unsaved' = unsaved)
        /\ \A my \in 0..(ScreenHeight - 1), mx \in MouseXs :
              ClickStep(my, mx)
                 => IF my = ScreenHeight - 1 \/ scroll_offset + my >= Len(buffer)
                    THEN cursor_y' = cursor_y /\ cursor_x' = cursor_x
                    ELSE /\ cursor_y' = scroll_offset + my
                         /\ cursor_x' =
                               IF mx - GutterWidth < 0 THEN 0
                               ELSE IF mx - GutterWidth > Len(buffer[scroll_offset + my + 1])
                                    THEN Len(buffer[scroll_offset + my + 1])
                                    ELSE mx - GutterWidth ]_vars

\* One key after loading the lines "ab", "", "b": a click right of the text of
\* the first row put the cursor at the end of "ab".
C20_Witness ==
    /\ pc = "draw" /\ nkeys = 1 /\ ~unsaved
    /\ file = <<"a", "b", "\n", "\n", "b">>
    /\ cursor_y = 0 /\ cursor_x = 2 /\ scroll_offset = 0

====
